---- MODULE Spec2Model ----
(***************************************************************************)
(* The uniformly-sampled sequences and the ordered multi-row containers of *)
(* _datatypes/series.py: Series, TimeSeries, MultiSeries, TimeFreqSpectrum *)
(* and CreateEmptySpectrum.                                                *)
(*                                                                         *)
(* Python values are records tagged with their type, so that isinstance    *)
(* and "is None" are tests on the tag.  A numpy array is a record          *)
(* [type |-> "ndarray", ndim, data]; a float is a rational num/den in      *)
(* lowest terms (1./fs is Float(1, fs)); an object carries the set `attrs` *)
(* of the instance attributes its methods have assigned, and reading an    *)
(* attribute outside that set (and outside the class's properties) raises  *)
(* AttributeError.  A method is an operator from the object and the        *)
(* arguments to [outcome, self, ...]: outcome is "ok" or the name of the   *)
(* exception raised, self is the object as the call leaves it.  A          *)
(* container also carries `base`: the buffer of the caller its array is a  *)
(* view of, if any, with the buffer's contents when supplied and now.      *)
(*                                                                         *)
(* All buffers, keys and epochs of the model hold integer-valued numbers   *)
(* of one numeric type, so the element-type conversions numpy applies on   *)
(* insertion and assignment are identities on them.                        *)
(***************************************************************************)
EXTENDS Integers, Sequences, FiniteSets, TLC

VARIABLES
    c,          \* the container object (MultiSeries or TimeFreqSpectrum)
    pre,        \* the container as it was when the call in `last` began
    last,       \* the call just made on the container, with its outcome
    appended,   \* the keys the container received (constructor and successful appends)
    startedEmpty, \* whether the container was constructed without rows
    ser,        \* a Series or TimeSeries object
    res         \* the resample call just made on `ser`, with its outcome

vars == <<c, pre, last, appended, startedEmpty, ser, res>>

-----------------------------------------------------------------------------
(* Bounds of the model and the input sets drawn from them. *)

MaxVal == 2

Vals == 1..MaxVal
Lens == {3, 5}
Freqs == {10, 20, 30}
Epochs == {0, 1, 2}
Rates == {10, 93}

-----------------------------------------------------------------------------
(* Python values. *)

PyNone == [type |-> "None"]
PyInt(v) == [type |-> "int", v |-> v]
PyList(items) == [type |-> "list", v |-> items]
Float(n, d) == [type |-> "float", num |-> n, den |-> d]

IsNone(x) == x.type = "None"
\* isinstance(x, np.int) / isinstance(x, np.float): the builtin int and float
IsInt(x) == x.type = "int"
IsFloat(x) == x.type = "float"

\* The number a real scalar stands for (keys and epochs are integer-valued).
NumOf(x) == IF x.type = "int" THEN x.v ELSE x.num

\* 1./x for an int or a float x
Recip(x) == IF IsInt(x) THEN Float(1, x.v) ELSE Float(x.den, x.num)

\* The integer rates n for which int(1./(1./n)) is n - 1 in IEEE double
\* arithmetic (1./(1./93) is 92.99999999999999); for the others up to 123
\* the round trip gives n back.
LossyRates == {93, 99, 105, 117, 123}

\* int(1./deltax) for deltax = num/den
IntRecip(deltax) ==
    IF deltax.num = 1 /\ deltax.den \in LossyRates
    THEN PyInt(deltax.den - 1)
    ELSE PyInt(deltax.den \div deltax.num)

-----------------------------------------------------------------------------
(* numpy arrays. *)

Arr1(data) == [type |-> "ndarray", ndim |-> 1, data |-> data]
Arr2(rows) == [type |-> "ndarray", ndim |-> 2, data |-> rows]
\* np.asarray of a scalar: a zero-dimensional array
Arr0(v) == [type |-> "ndarray", ndim |-> 0, item |-> v]

\* np.array([])
EmptyArr == Arr1(<<>>)

Shape(a) ==
    IF a.ndim = 0 THEN <<>>
    ELSE IF a.ndim = 1 THEN <<Len(a.data)>>
    ELSE <<Len(a.data), IF Len(a.data) = 0 THEN 0 ELSE Len(a.data[1])>>

Size(a) ==
    IF a.ndim = 0 THEN 1
    ELSE IF a.ndim = 1 THEN Len(a.data) ELSE Shape(a)[1] * Shape(a)[2]

\* a.reshape(1, a.size) of a one-dimensional array
ReshapeRow(a) == Arr2(<<a.data>>)

\* np.insert on a sequence: x placed at 0-based position idx
InsertAt(s, idx, x) == SubSeq(s, 1, idx) \o <<x>> \o SubSeq(s, idx + 1, Len(s))

\* np.insert(array, idx, value, axis=0)
InsertRow(a, idx, value) == [a EXCEPT !.data = InsertAt(a.data, idx, value.data)]

\* array[idx, :] = value
AssignRow(a, idx, value) == [a EXCEPT !.data[idx + 1] = value.data]

\* np.where(y - k >= 0)[0][0]: the first 0-based index whose key is >= k
FirstAtLeast(y, k) ==
    CHOOSE i \in 0..(Len(y.data) - 1) :
        /\ y.data[i + 1] - k >= 0
        /\ \A j \in 0..(i - 1) : ~(y.data[j + 1] - k >= 0)

\* The memory behind self._array.  np.asarray does not copy an array and
\* reshape returns a view, so the array of a container can be a view of a buffer
\* the caller supplied: `orig` is what the buffer held when supplied, `now` what
\* it holds.  np.array and np.insert return arrays of their own.
ViewOf(buf) == [shared |-> TRUE, orig |-> buf.data, now |-> buf.data]
Owned == [shared |-> FALSE]

\* array[idx, :] = value seen from the buffer the array is a view of, for an
\* array of one row
WriteThrough(base, value) ==
    IF base.shared THEN [base EXCEPT !.now = value.data] ELSE base

\* [x, x+1, ..., x+n-1] as a one-dimensional array
Ramp(n, x) == Arr1([i \in 1..n |-> x + i - 1])

Bufs == {Ramp(n, x) : n \in Lens, x \in Vals}

-----------------------------------------------------------------------------
(* Series and TimeSeries objects. *)

\* Series.__init__ raises when the buffer is neither one-dimensional nor of
\* first dimension 1.
SeriesShapeError(value) == Len(Shape(value)) # 1 /\ Shape(value)[1] # 1

\* Series(value, deltax): assigns _value, _deltax and _info
NewSeries(value, deltax) ==
    [type |-> "Series", attrs |-> {"_value", "_deltax", "_info"},
     value |-> value, deltax |-> deltax]

\* TimeSeries(value, epoch, fs): Series.__init__ with deltax = 1./fs, then _epoch
NewTimeSeries(value, epoch, fs) ==
    [type |-> "TimeSeries", attrs |-> {"_value", "_deltax", "_info", "_epoch"},
     value |-> value, deltax |-> Recip(fs), epoch |-> epoch]

\* isinstance(x, Series): TimeSeries is a subclass of Series
IsSeries(x) == x.type \in {"Series", "TimeSeries"}

\* The names a class defines as properties or methods, readable on every instance.
ClassNames(type) ==
    IF type = "Series"
    THEN {"value", "deltax", "size", "x", "length", "real", "imag",
          "conjugate", "resample"}
    ELSE IF type = "TimeSeries"
    THEN {"value", "deltax", "size", "x", "length", "real", "imag",
          "conjugate", "resample", "fs", "time", "epoch"}
    ELSE IF type = "MultiSeries"
    THEN {"y", "deltax", "x", "ysize", "length", "height", "xsize", "shape",
          "append"}
    ELSE {"y", "deltax", "x", "ysize", "length", "height", "xsize", "shape",
          "append", "epoch", "fs", "frequencies"}

\* Whether obj.name can be read: an instance attribute or a name of the class
HasAttr(obj, name) == name \in obj.attrs \/ name \in ClassNames(obj.type)

\* TimeSeries.fs
TimeSeriesFs(self) == IntRecip(self.deltax)

-----------------------------------------------------------------------------
(* MultiSeries and TimeFreqSpectrum: construction. *)

Built(obj) == [outcome |-> "ok", obj |-> obj]
Failed(err) == [outcome |-> err]

\* A scalar-or-list argument as the list np.asarray sees: a real scalar y
\* becomes [y]
AsList(y) == IF IsInt(y) \/ IsFloat(y) THEN <<NumOf(y)>> ELSE y.v

\* MultiSeries.__init__(array, deltax, y), for the class `type` under construction
MultiSeriesInit(type, array, deltax, y) ==
    IF array.ndim # 1
    THEN Failed("AttributeError")       \* _isempty is read before any assignment
    ELSE
    LET isempty == ~(Shape(array)[1] > 0)
        arr == IF isempty THEN EmptyArr ELSE ReshapeRow(array)
        obj == [type |-> type, attrs |-> {"_isempty", "_array", "_deltax", "_y"},
                isempty |-> isempty, array |-> arr,
                base |-> IF isempty THEN Owned ELSE ViewOf(array),
                deltax |-> PyNone, y |-> PyNone, epoch |-> PyNone]
    IN
    IF isempty THEN Built(obj)
    ELSE IF IsNone(y) THEN Failed("TypeError")      \* len() of a 0-d array
    ELSE IF Len(AsList(y)) > 0
    THEN IF Len(AsList(y)) # Shape(arr)[1]
         THEN Failed("Exception")
         ELSE Built([obj EXCEPT !.deltax = deltax, !.y = Arr1(AsList(y))])
    ELSE Failed("Exception")

\* TimeFreqSpectrum.__init__(array, epoch, fs, freqs)
TimeFreqSpectrumInit(array, epoch, fs, freqs) ==
    LET base == MultiSeriesInit("TimeFreqSpectrum", array, Recip(fs), freqs) IN
    IF base.outcome # "ok" THEN base
    ELSE IF base.obj.isempty THEN base      \* only a local name is set to None
    ELSE IF IsNone(epoch) THEN Failed("TypeError")
    ELSE
    LET ysize == Shape(base.obj.array)[1]
        ep == AsList(epoch)
    IN
    IF Len(ep) = 1
    THEN Built([base.obj EXCEPT !.attrs = @ \cup {"_epoch"},
                                !.epoch = Arr1([i \in 1..ysize |-> ep[1]])])
    ELSE IF Len(ep) = ysize
    THEN Built([base.obj EXCEPT !.attrs = @ \cup {"_epoch"}, !.epoch = Arr1(ep)])
    ELSE Failed("Exception")

CreateEmptySpectrum == TimeFreqSpectrumInit(EmptyArr, PyNone, PyInt(1), PyNone).obj

\* MultiSeries.ysize and MultiSeries.xsize (shape[0], shape[1])
YSize(self) == Shape(self.array)[1]
XSize(self) == Shape(self.array)[2]

-----------------------------------------------------------------------------
(* MultiSeries.append and TimeFreqSpectrum.append. *)

Raise(self, err) == [outcome |-> err, self |-> self]
Ok(self) == [outcome |-> "ok", self |-> self]

\* MultiSeriesPlace with the collision test dropped: a row whose key is stored is
\* inserted before it instead of replacing it.
MultiSeriesPlaceNoUpdate(self, value, k) ==
    LET idx_insert == IF k > self.y.data[Len(self.y.data)] THEN YSize(self)
                      ELSE FirstAtLeast(self.y, k) IN
    [self EXCEPT !.array = InsertRow(self.array, idx_insert, value),
                 !.base = Owned,
                 !.y = Arr1(InsertAt(self.y.data, idx_insert, k))]

\* MultiSeriesPlace with the search for the index dropped: a row whose key is
\* not stored is placed last whatever its key.
MultiSeriesPlaceAtEnd(self, value, k) ==
    IF k \in {self.y.data[i] : i \in 1..Len(self.y.data)}
    THEN [self EXCEPT !.array = AssignRow(self.array, FirstAtLeast(self.y, k), value),
                      !.base = WriteThrough(@, value)]
    ELSE [self EXCEPT !.array = InsertRow(self.array, YSize(self), value),
                      !.base = Owned,
                      !.y = Arr1(InsertAt(self.y.data, YSize(self), k))]

\* The non-empty branch of MultiSeries.append: place the row by its key
MultiSeriesPlace(self, value, k) ==
    IF k > self.y.data[Len(self.y.data)]
    THEN LET idx_insert == YSize(self) IN
         [self EXCEPT !.array = InsertRow(self.array, idx_insert, value),
                      !.base = Owned,
                      !.y = Arr1(InsertAt(self.y.data, idx_insert, k))]
    ELSE LET idx_insert == FirstAtLeast(self.y, k) IN
         IF self.y.data[idx_insert + 1] = k
         THEN [self EXCEPT !.array = AssignRow(self.array, idx_insert, value),
                           !.base = WriteThrough(@, value)]
         ELSE [self EXCEPT !.array = InsertRow(self.array, idx_insert, value),
                           !.base = Owned,
                           !.y = Arr1(InsertAt(self.y.data, idx_insert, k))]

\* MultiSeries.append(series, y)
MultiSeriesAppend(self, series, y) ==
    IF ~IsSeries(series) /\ SeriesShapeError(series)
    THEN Raise(self, "Exception")
    ELSE
    LET s == IF IsSeries(series) THEN series ELSE NewSeries(series, self.deltax) IN
    IF ~self.isempty
    THEN IF Shape(s.value)[1] # XSize(self)
         THEN Raise(self, "Exception")
         ELSE IF s.deltax # self.deltax
         THEN Raise(self, "Exception")
         ELSE IF ~(IsInt(y) \/ IsFloat(y))
         THEN Raise(self, "ValueError")     \* a list compared with a numpy scalar
         ELSE Ok(MultiSeriesPlace(self, s.value, NumOf(y)))
    ELSE LET written == [self EXCEPT !.deltax = s.deltax,
                                     !.array = ReshapeRow(s.value),
                                     !.base = ViewOf(s.value)] IN
         IF ~IsInt(y) \/ ~IsFloat(y)
         THEN Raise(written, "TypeError")
         ELSE Ok([written EXCEPT !.y = Arr1(<<NumOf(y)>>)])

\* TimeFreqSpectrumPlace with the epoch of an inserted row put last instead of at
\* the row's index.
TimeFreqSpectrumPlaceEpochLast(self, value, epoch, freq) ==
    IF freq <= self.y.data[Len(self.y.data)]
        /\ self.y.data[FirstAtLeast(self.y, freq) + 1] = freq
    THEN [self EXCEPT !.array = AssignRow(self.array, FirstAtLeast(self.y, freq), value),
                      !.base = WriteThrough(@, value),
                      !.epoch.data[FirstAtLeast(self.y, freq) + 1] = epoch]
    ELSE LET idx_insert == IF freq > self.y.data[Len(self.y.data)] THEN YSize(self)
                           ELSE FirstAtLeast(self.y, freq) IN
         [self EXCEPT !.array = InsertRow(self.array, idx_insert, value),
                      !.base = Owned,
                      !.epoch = Arr1(self.epoch.data \o <<epoch>>),
                      !.y = Arr1(InsertAt(self.y.data, idx_insert, freq))]

\* The non-empty branch of TimeFreqSpectrum.append: row, epoch and key in lockstep
TimeFreqSpectrumPlace(self, value, epoch, freq) ==
    IF freq > self.y.data[Len(self.y.data)]
    THEN LET idx_insert == YSize(self) IN
         [self EXCEPT !.array = InsertRow(self.array, idx_insert, value),
                      !.base = Owned,
                      !.epoch = Arr1(InsertAt(self.epoch.data, idx_insert, epoch)),
                      !.y = Arr1(InsertAt(self.y.data, idx_insert, freq))]
    ELSE LET idx_insert == FirstAtLeast(self.y, freq) IN
         IF self.y.data[idx_insert + 1] = freq
         THEN [self EXCEPT !.array = AssignRow(self.array, idx_insert, value),
                           !.base = WriteThrough(@, value),
                           !.epoch.data[idx_insert + 1] = epoch]
         ELSE [self EXCEPT !.array = InsertRow(self.array, idx_insert, value),
                           !.base = Owned,
                           !.epoch = Arr1(InsertAt(self.epoch.data, idx_insert, epoch)),
                           !.y = Arr1(InsertAt(self.y.data, idx_insert, freq))]

\* TimeFreqSpectrum.append from `if not self._isempty:` on, with the value,
\* epoch, deltax and size the first part of the method settled on
TimeFreqSpectrumStore(self, timeseries, value, freq, epoch, deltax, size) ==
    IF ~self.isempty
    THEN IF size # XSize(self)
         THEN Raise(self, "Exception")
         ELSE IF deltax # self.deltax
         THEN \* the message reads timeseries.deltax, which an ndarray lacks
              Raise(self, IF timeseries.type = "ndarray" THEN "AttributeError"
                          ELSE "Exception")
         ELSE Ok(TimeFreqSpectrumPlace(self, value, NumOf(epoch), NumOf(freq)))
    ELSE Ok([self EXCEPT !.array = ReshapeRow(value),
                             !.base = ViewOf(value),
                             !.epoch = Arr1(<<NumOf(epoch)>>),
                             !.attrs = @ \cup {"_epoch"},
                             !.y = Arr1(<<NumOf(freq)>>),
                             !.deltax = deltax])

\* TimeFreqSpectrum.append(timeseries, freq, epoch = None, fs = None)
TimeFreqSpectrumAppend(self, timeseries, freq, epoch, fs) ==
    IF timeseries.type # "TimeSeries" /\ IsNone(epoch)
    THEN Raise(self, "TypeError")
    ELSE IF ~IsNone(epoch) /\ timeseries.type = "ndarray"
    THEN TimeFreqSpectrumStore(self, timeseries, timeseries, freq, epoch,
                               IF IsNone(fs) THEN self.deltax ELSE fs,
                               Size(timeseries))
    ELSE IF timeseries.type = "TimeSeries"
    THEN TimeFreqSpectrumStore(self, timeseries, timeseries.value, freq,
                               timeseries.epoch, timeseries.deltax,
                               Size(timeseries.value))
    ELSE Raise(self, "AttributeError")      \* a list has no .value

\* TimeFreqSpectrum.fs: 1./deltax
TimeFreqSpectrumFs(self) == Recip(self.deltax)

\* TimeFreqSpectrum.__iter__, run to exhaustion: the pairs it yields and how it ends.
\* Each step builds TimeSeries(array[i,:], epoch[i], fs, info = self._info); the
\* arguments are evaluated left to right.
TimeFreqSpectrumIter(self) ==
    IF YSize(self) = 0
    THEN [outcome |-> "ok", items |-> <<>>]
    ELSE IF IsNone(self.deltax)
    THEN [outcome |-> "TypeError", items |-> <<>>]
    ELSE IF ~HasAttr(self, "_info")
    THEN [outcome |-> "AttributeError", items |-> <<>>]
    ELSE [outcome |-> "ok",
          items |-> [i \in 1..YSize(self) |->
                        [frequency |-> self.y.data[i],
                         series |-> NewTimeSeries(Arr1(self.array.data[i]),
                                                  PyInt(self.epoch.data[i]),
                                                  TimeFreqSpectrumFs(self))]]]

-----------------------------------------------------------------------------
(* Series.resample and TimeSeries.resample. *)

\* The resampling collaborator resample(value, fs_old, fs_new) of _core: a pure
\* function whose result is left uninterpreted.
Resample(value, fs_old, fs_new) ==
    [type |-> "ndarray", ndim |-> 1,
     resampled |-> [value |-> value, fs_old |-> fs_old, fs_new |-> fs_new]]

\* Series.resample without the test for an unchanged spacing: it resamples and
\* builds a new Series on every call.
SeriesResampleAlways(self, new_deltax) ==
    LET new == Resample(self.value, Recip(self.deltax), Recip(new_deltax)) IN
    [outcome |-> "ok", same |-> FALSE, obj |-> NewSeries(new, new_deltax),
     calls |-> <<new.resampled>>]

\* Series.resample(new_deltax): what it returns (same = the instance itself),
\* and the calls it made to the collaborator
SeriesResample(self, new_deltax) ==
    IF new_deltax # self.deltax
    THEN LET new == Resample(self.value, Recip(self.deltax), Recip(new_deltax)) IN
         [outcome |-> "ok", same |-> FALSE, obj |-> NewSeries(new, new_deltax),
          calls |-> <<new.resampled>>]
    ELSE [outcome |-> "ok", same |-> TRUE, obj |-> self, calls |-> <<>>]

\* TimeSeries.resample(fs_new)
TimeSeriesResample(self, fs_new) ==
    IF fs_new # TimeSeriesFs(self)
    THEN LET new == Resample(self.value, TimeSeriesFs(self), fs_new) IN
         IF ~HasAttr(self, "info")
         THEN [outcome |-> "AttributeError", calls |-> <<new.resampled>>]
         ELSE [outcome |-> "ok", same |-> FALSE,
               obj |-> NewTimeSeries(new, self.epoch, TimeSeriesFs(self)),
               calls |-> <<new.resampled>>]
    ELSE [outcome |-> "ok", same |-> TRUE, obj |-> self, calls |-> <<>>]

-----------------------------------------------------------------------------
(* Series: construction, length and indexing. *)

\* Series.__init__(value, deltax): value.shape[0] of a zero-dimensional array
\* raises IndexError, the shape test raises Exception
SeriesInit(value, deltax) ==
    IF Len(Shape(value)) = 0 THEN Failed("IndexError")
    ELSE IF SeriesShapeError(value) THEN Failed("Exception")
    ELSE Built(NewSeries(value, deltax))

RECURSIVE GCD(_, _)
GCD(a, b) == IF b = 0 THEN a ELSE GCD(b, a % b)

Abs(n) == IF n < 0 THEN -n ELSE n
Min(a, b) == IF a < b THEN a ELSE b
Max(a, b) == IF a < b THEN b ELSE a

\* deltax * k for a float deltax and an int k, in lowest terms
MulInt(x, k) ==
    LET n == x.num * k
        g == GCD(Abs(n), x.den)
    IN Float(n \div g, x.den \div g)

\* Whether a float is > 0, = 0
Positive(x) == x.num > 0

\* Series.__len__ and Series.length
SeriesLen(self) == Len(self.value.data)
SeriesLength(self) == MulInt(self.deltax, SeriesLen(self))

\* slice(start, stop, step): each part is None or an int
Slice(start, stop, step) ==
    [type |-> "slice", start |-> start, stop |-> stop, step |-> step]

\* The 0-based positions a slice with a nonzero step selects in a buffer of n
\* elements, in the order selected (slice.indices(n))
SliceIndices(n, index) ==
    LET step == IF IsNone(index.step) THEN 1 ELSE index.step.v
        lower == IF step > 0 THEN 0 ELSE -1
        upper == IF step > 0 THEN n ELSE n - 1
        Adjust(i) == IF i < 0 THEN Max(i + n, lower) ELSE Min(i, upper)
        start == IF IsNone(index.start)
                 THEN (IF step < 0 THEN upper ELSE lower)
                 ELSE Adjust(index.start.v)
        stop == IF IsNone(index.stop)
                THEN (IF step < 0 THEN lower ELSE upper)
                ELSE Adjust(index.stop.v)
        count == IF step > 0
                 THEN (IF start < stop THEN (stop - start - 1) \div step + 1 ELSE 0)
                 ELSE (IF stop < start THEN (start - stop - 1) \div (-step) + 1 ELSE 0)
    IN [j \in 1..count |-> start + (j - 1) * step]

\* value[positions] for in-range 0-based positions (a negative one counts from
\* the end)
Take(value, positions) ==
    LET n == Len(value.data)
        At(i) == IF i < 0 THEN value.data[i + n + 1] ELSE value.data[i + 1]
    IN Arr1([j \in 1..Len(positions) |-> At(positions[j])])

\* Whether every position lies within a buffer of n elements
InRange(n, positions) ==
    \A j \in 1..Len(positions) : positions[j] >= -n /\ positions[j] < n

\* np.gradient(index) for two or more elements, every entry doubled to stay in
\* the integers: one-sided differences at the ends, central differences inside
Gradient(index) ==
    LET s == index.data
        n == Len(s)
    IN [i \in 1..n |->
            IF i = 1 THEN 2 * (s[2] - s[1])
            ELSE IF i = n THEN 2 * (s[n] - s[n - 1])
            ELSE s[i + 1] - s[i - 1]]

SeqMax(s) == CHOOSE m \in {s[i] : i \in 1..Len(s)} : \A i \in 1..Len(s) : s[i] <= m
SeqMin(s) == CHOOSE m \in {s[i] : i \in 1..Len(s)} : \A i \in 1..Len(s) : m <= s[i]

\* A value returned, an exception raised
Return(ret) == [outcome |-> "ok", ret |-> ret]
Throw(err) == [outcome |-> err]

\* Series(self._value[index], deltax = new_deltax) at the end of _getslice
SliceResult(value, new_deltax) ==
    LET r == SeriesInit(value, new_deltax) IN
    IF r.outcome = "ok" THEN Return(r.obj) ELSE Throw(r.outcome)

\* The spacing _getslice gives the result of a slice, without the step
SliceSpacingUnscaled(deltax, step) == deltax

\* The spacing _getslice gives the result of a slice
SliceSpacing(deltax, step) ==
    IF ~IsNone(step) THEN MulInt(deltax, step.v) ELSE deltax

\* The slice branch of _getslice after the test of the start
SeriesGetRange(self, index) ==
    LET new_deltax == SliceSpacing(self.deltax, index.step) IN
    IF ~IsNone(index.step) /\ index.step.v = 0
    THEN Throw("ValueError")            \* slice step cannot be zero
    ELSE SliceResult(Take(self.value, SliceIndices(SeriesLen(self), index)),
                     new_deltax)

\* The test of an index array left out: every array passes
UniformIndexUnchecked(index) == TRUE

\* The test _getslice makes of an index array of two or more elements:
\* max(grad) = min(grad)
UniformIndex(index) == SeqMax(Gradient(index)) = SeqMin(Gradient(index))

\* The index-array branch of _getslice
SeriesGetIndexArray(self, index) ==
    IF Len(index.data) = 1
    THEN IF InRange(SeriesLen(self), index.data)
         THEN Return(Take(self.value, index.data))
         ELSE Throw("IndexError")
    ELSE IF Len(index.data) = 0
    THEN Throw("ValueError")            \* np.gradient of an empty array
    ELSE IF ~UniformIndex(index)
    THEN Throw("ValueError")
    ELSE
    LET step == index.data[2] - index.data[1]
        new_deltax == MulInt(self.deltax, step)
    IN
    IF InRange(SeriesLen(self), index.data)
    THEN SliceResult(Take(self.value, index.data), new_deltax)
    ELSE Throw("IndexError")

\* _getslice without the test of the slice's start
SeriesGetSliceAnyStart(self, index) ==
    IF index.type = "slice" THEN SeriesGetRange(self, index)
    ELSE IF index.type = "ndarray" THEN SeriesGetIndexArray(self, index)
    ELSE Return(PyNone)

\* Series._getslice(index)
SeriesGetSlice(self, index) ==
    IF index.type = "slice"
    THEN IF ~IsNone(index.start) /\ index.start.v < 0
         THEN Throw("ValueError")
         ELSE SeriesGetRange(self, index)
    ELSE IF index.type = "ndarray" THEN SeriesGetIndexArray(self, index)
    ELSE Return(PyNone)                 \* no branch returns

\* Series.__getitem__(key)
SeriesGetItem(self, key) ==
    IF IsInt(key)
    THEN IF InRange(SeriesLen(self), <<key.v>>)
         THEN Return(PyInt(Take(self.value, <<key.v>>).data[1]))
         ELSE Throw("IndexError")
    ELSE SeriesGetSlice(self, key)

-----------------------------------------------------------------------------
(* MultiSeries and TimeFreqSpectrum: the accessors. *)

\* The names read on a container
AccessorNames ==
    {"y", "deltax", "x", "__len__", "ysize", "length", "height", "xsize",
     "shape", "epoch"}

\* self.shape[k] for k = 0, 1: IndexError beyond the array's dimensions
ShapeAt(self, k) ==
    IF Len(Shape(self.array)) > k THEN Return(PyInt(Shape(self.array)[k + 1]))
    ELSE Throw("IndexError")

\* MultiSeries.length: self.xsize * self._deltax
ContainerLength(self) ==
    IF ShapeAt(self, 1).outcome # "ok" THEN ShapeAt(self, 1)
    ELSE IF IsNone(self.deltax) THEN Throw("TypeError")
    ELSE Return(MulInt(self.deltax, ShapeAt(self, 1).ret.v))

\* A read of self.<name> (len(self) for __len__) on a MultiSeries or a
\* TimeFreqSpectrum.  The array np.arange returns for x is left uninterpreted.
ContainerAccess(self, name) ==
    CASE name = "y" -> Return(self.y)
      [] name = "deltax" -> Return(self.deltax)
      [] name = "shape" -> Return([type |-> "tuple", v |-> Shape(self.array)])
      [] name = "ysize" -> ShapeAt(self, 0)
      [] name \in {"xsize", "__len__"} -> ShapeAt(self, 1)
      [] name = "length" -> ContainerLength(self)
      [] name = "x" ->
            IF ContainerLength(self).outcome # "ok" THEN ContainerLength(self)
            ELSE Return([type |-> "ndarray", ndim |-> 1,
                         arange |-> [start |-> 0,
                                     stop |-> ContainerLength(self).ret,
                                     step |-> self.deltax]])
      [] name = "height" ->
            IF IsNone(self.y) THEN Throw("TypeError")
            ELSE Return(PyInt(self.y.data[Len(self.y.data)] - self.y.data[1]))
      [] name = "epoch" ->
            IF ~HasAttr(self, "epoch") \/ ~HasAttr(self, "_epoch")
            THEN Throw("AttributeError")
            ELSE Return(self.epoch)

-----------------------------------------------------------------------------
(* The arguments the calls are made with. *)

Spacings == {Recip(PyInt(n)) : n \in Rates}

KeyArgs ==
    {PyInt(k) : k \in Freqs} \cup {Float(k, 1) : k \in Freqs}
        \cup {PyList(<<10, 20>>)}

\* MultiSeries.append takes a Series or a raw buffer
SeriesArgs == {NewSeries(b, dx) : b \in Bufs, dx \in Spacings} \cup Bufs

TimeSeriesArgs ==
    {NewTimeSeries(b, PyInt(e), PyInt(n)) : b \in Bufs, e \in Epochs, n \in Rates}

\* TimeFreqSpectrum.append takes a TimeSeries, or a raw buffer with an epoch and
\* an optional spacing, or (in error) anything else
SpectrumArgs ==
    [timeseries : TimeSeriesArgs, epoch : {PyNone}, fs : {PyNone}]
        \cup [timeseries : Bufs,
              epoch : {PyNone} \cup {PyInt(e) : e \in Epochs},
              fs : {PyNone} \cup Spacings]
        \cup [timeseries : {PyList(<<1, 2, 3>>)},
              epoch : {PyNone, PyInt(0)}, fs : {PyNone}]

\* The containers the constructors build
Constructions ==
    {MultiSeriesInit("MultiSeries", a, dx, y) :
        a \in Bufs \cup {EmptyArr}, dx \in Spacings, y \in KeyArgs}
        \cup {TimeFreqSpectrumInit(a, PyInt(e), PyInt(n), PyInt(f)) :
                a \in Bufs, e \in Epochs, n \in Rates, f \in Freqs}
        \cup {Built(CreateEmptySpectrum)}

Containers == {r.obj : r \in {x \in Constructions : x.outcome = "ok"}}

SeriesObjects ==
    {NewSeries(b, dx) : b \in Bufs, dx \in Spacings} \cup TimeSeriesArgs

TargetRates == {PyInt(n) : n \in Rates \cup {20, 92}}

NoCall == [op |-> "none"]

\* The keys a container holds
KeysOf(self) == IF IsNone(self.y) THEN {} ELSE {self.y.data[i] : i \in 1..Len(self.y.data)}

-----------------------------------------------------------------------------
(* The containers under a caller that appends and iterates. *)

Init ==
    /\ c \in Containers
    /\ pre = c
    /\ last = NoCall
    /\ appended = KeysOf(c)
    /\ startedEmpty = (YSize(c) = 0)
    /\ ser = NewSeries(Ramp(3, 1), Recip(PyInt(10)))
    /\ res = NoCall

\* A call of MultiSeries.append
AppendRow ==
    /\ last.op = "none"
    /\ c.type = "MultiSeries"
    /\ \E series \in SeriesArgs, y \in KeyArgs :
        LET r == MultiSeriesAppend(c, series, y) IN
        /\ c' = r.self
        /\ pre' = c
        /\ last' = [op |-> "append", series |-> series, y |-> y,
                    outcome |-> r.outcome]
        /\ appended' = IF r.outcome = "ok" THEN appended \cup {NumOf(y)}
                       ELSE appended
    /\ UNCHANGED <<startedEmpty, ser, res>>

\* A call of TimeFreqSpectrum.append
AppendSpectrum ==
    /\ last.op = "none"
    /\ c.type = "TimeFreqSpectrum"
    /\ \E a \in SpectrumArgs, f \in Freqs :
        LET r == TimeFreqSpectrumAppend(c, a.timeseries, PyInt(f), a.epoch, a.fs) IN
        /\ c' = r.self
        /\ pre' = c
        /\ last' = [op |-> "append", timeseries |-> a.timeseries, freq |-> f,
                    epoch |-> a.epoch, fs |-> a.fs, outcome |-> r.outcome]
        /\ appended' = IF r.outcome = "ok" THEN appended \cup {f} ELSE appended
    /\ UNCHANGED <<startedEmpty, ser, res>>

\* The caller iterates a TimeFreqSpectrum to the end
Iterate ==
    /\ last.op = "none"
    /\ c.type = "TimeFreqSpectrum"
    /\ LET r == TimeFreqSpectrumIter(c) IN
        last' = [op |-> "iter", outcome |-> r.outcome, items |-> r.items]
    /\ pre' = c
    /\ UNCHANGED <<c, appended, startedEmpty, ser, res>>

\* A read of an accessor of the container
Access ==
    /\ last.op = "none"
    /\ \E name \in AccessorNames :
        last' = [op |-> "access", name |-> name, r |-> ContainerAccess(c, name)]
    /\ pre' = c
    /\ UNCHANGED <<c, appended, startedEmpty, ser, res>>

\* The call has returned or raised and the caller goes on
Continue ==
    /\ last.op # "none"
    /\ last' = NoCall
    /\ pre' = c
    /\ UNCHANGED <<c, appended, startedEmpty, ser, res>>

Next == AppendRow \/ AppendSpectrum \/ Iterate \/ Access \/ Continue

Spec == Init /\ [][Next]_vars

-----------------------------------------------------------------------------
(* A sequence under a caller that resamples it. *)

InitSeries ==
    /\ ser \in SeriesObjects
    /\ res = NoCall
    /\ c = CreateEmptySpectrum
    /\ pre = c
    /\ last = NoCall
    /\ appended = {}
    /\ startedEmpty = TRUE

\* A call of Series.resample on a plain Series
ResampleSeries ==
    /\ ser.type = "Series"
    /\ \E new_deltax \in Spacings \cup {Float(1, 5)} :
        LET r == SeriesResample(ser, new_deltax) IN
        res' = [op |-> "resample", arg |-> new_deltax, r |-> r]
    /\ UNCHANGED <<ser, c, pre, last, appended, startedEmpty>>

\* A call of TimeSeries.resample
ResampleTimeSeries ==
    /\ ser.type = "TimeSeries"
    /\ \E fs_new \in TargetRates :
        LET r == TimeSeriesResample(ser, fs_new) IN
        res' = [op |-> "resample", arg |-> fs_new, r |-> r]
    /\ UNCHANGED <<ser, c, pre, last, appended, startedEmpty>>

NextSeries == ResampleSeries \/ ResampleTimeSeries

SpecSeries == InitSeries /\ [][NextSeries]_vars

-----------------------------------------------------------------------------
(* A sequence under a caller that constructs, measures and indexes. *)

\* The sequences indexed: [1, 2, 3, 4] at spacings 0.5 and 0.1, and the
\* sequences of SeriesObjects
SliceSubjects ==
    {NewSeries(Ramp(4, 1), dx) : dx \in {Float(1, 2), Float(1, 10)}}
        \cup SeriesObjects

\* None or an int, for the parts of a slice
Starts == {PyNone} \cup {PyInt(i) : i \in -2..2}
Stops == {PyNone} \cup {PyInt(i) : i \in {-1, 2, 4, 7}}
Steps == {PyNone} \cup {PyInt(i) : i \in -2..3}

\* The positions index arrays hold: 6 is outside every buffer
Positions == {-1, 0, 1, 2, 3, 4, 6}

IndexArrays ==
    {Arr1(<<>>)} \cup {Arr1(<<i>>) : i \in Positions}
        \cup {Arr1(<<i, j>>) : i, j \in Positions}
        \cup {Arr1(<<i, j, k>>) : i, j, k \in Positions}

\* The keys __getitem__ is called with: an int, a slice, an index array, a list
ItemKeys ==
    {PyInt(i) : i \in Positions}
        \cup {Slice(a, b, s) : a \in Starts, b \in Stops, s \in Steps}
        \cup IndexArrays
        \cup {PyList(<<0, 1>>)}

\* The buffers Series is constructed from: zero-, one- and two-dimensional
SeriesBufs ==
    {Arr0(x) : x \in Vals} \cup Bufs
        \cup {Arr2(<<b.data>>) : b \in Bufs}
        \cup {Arr2(<<b.data, b.data>>) : b \in Bufs}
        \cup {Arr2(<<<<x>>, <<x>>>>) : x \in Vals}

\* The buffers, epochs and keys TimeFreqSpectrum is constructed from: one row
\* or two, a scalar epoch or a list of one to three, a scalar key or a list
SpectrumBufs ==
    Bufs \cup {Arr2(<<b.data, b.data>>) : b \in Bufs}

EpochArgs ==
    {PyInt(e) : e \in Epochs}
        \cup {PyList(<<1>>), PyList(<<1, 2>>), PyList(<<0, 1, 2>>)}

FreqArgs == {PyInt(f) : f \in Freqs} \cup {PyList(<<10, 20>>)}

InitSlice ==
    /\ ser \in SliceSubjects
    /\ res = NoCall
    /\ c = CreateEmptySpectrum
    /\ pre = c
    /\ last = NoCall
    /\ appended = {}
    /\ startedEmpty = TRUE

\* A call of Series(value, deltax)
ConstructSeries ==
    /\ res.op = "none"
    /\ \E value \in SeriesBufs, deltax \in Spacings :
        res' = [op |-> "Series", value |-> value, deltax |-> deltax,
                r |-> SeriesInit(value, deltax)]
    /\ UNCHANGED <<ser, c, pre, last, appended, startedEmpty>>

\* A call of TimeFreqSpectrum(array, epoch, fs, freqs)
ConstructSpectrum ==
    /\ res.op = "none"
    /\ \E array \in SpectrumBufs, epoch \in EpochArgs, fs \in Rates, freqs \in FreqArgs :
        res' = [op |-> "TimeFreqSpectrum", array |-> array, epoch |-> epoch,
                fs |-> PyInt(fs), freqs |-> freqs,
                r |-> TimeFreqSpectrumInit(array, epoch, PyInt(fs), freqs)]
    /\ UNCHANGED <<ser, c, pre, last, appended, startedEmpty>>

\* A read of ser.length
GetLength ==
    /\ res.op = "none"
    /\ res' = [op |-> "length", r |-> SeriesLength(ser)]
    /\ UNCHANGED <<ser, c, pre, last, appended, startedEmpty>>

\* A call of ser[key]; __getitem__ and _getslice assign nothing to the
\* sequence, which res records as the call left it
GetItem ==
    /\ res.op = "none"
    /\ \E key \in ItemKeys :
        res' = [op |-> "getitem", key |-> key, r |-> SeriesGetItem(ser, key),
                self |-> ser]
    /\ UNCHANGED <<ser, c, pre, last, appended, startedEmpty>>

\* The call has returned or raised and the caller goes on
ContinueSlice ==
    /\ res.op # "none"
    /\ res' = NoCall
    /\ UNCHANGED <<ser, c, pre, last, appended, startedEmpty>>

NextSlice ==
    ConstructSeries \/ ConstructSpectrum \/ GetLength \/ GetItem \/ ContinueSlice

SpecSlice == InitSlice /\ [][NextSlice]_vars

-----------------------------------------------------------------------------
(* What the claims speak of. *)

\* The key array, the row buffer and row_epochs as sequences (none before the
\* first row)
Keys(self) == IF IsNone(self.y) THEN <<>> ELSE self.y.data
Rows(self) == self.array.data
RowEpochs(self) == IF "_epoch" \in self.attrs THEN self.epoch.data ELSE <<>>

StrictlyIncreasing(s) == \A i \in 1..(Len(s) - 1) : s[i] < s[i + 1]

\* The container has received a row: it has keys
HoldsRows(self) == ~IsNone(self.y)

IsAppend == last.op = "append"
Succeeded == last.outcome = "ok"

\* The key, the values, the epoch and the spacing the caller gave the append in `last`
GivenKey == IF c.type = "MultiSeries" THEN NumOf(last.y) ELSE last.freq
GivenRow ==
    IF c.type = "MultiSeries"
    THEN IF IsSeries(last.series) THEN last.series.value ELSE last.series
    ELSE IF last.timeseries.type = "TimeSeries" THEN last.timeseries.value
         ELSE last.timeseries
GivenEpoch ==
    IF last.timeseries.type = "TimeSeries" THEN NumOf(last.timeseries.epoch)
    ELSE NumOf(last.epoch)
GivenSpacing ==
    IF c.type = "MultiSeries"
    THEN IF IsSeries(last.series) THEN last.series.deltax ELSE pre.deltax
    ELSE IF last.timeseries.type = "TimeSeries" THEN last.timeseries.deltax
         ELSE IF IsNone(last.fs) THEN pre.deltax ELSE last.fs

\* The caller gave a row (a sequence object or a buffer) and a real scalar key
GaveRow ==
    IF c.type = "MultiSeries" THEN TRUE
    ELSE last.timeseries.type \in {"TimeSeries", "ndarray"}
GaveScalarKey ==
    IF c.type = "MultiSeries" THEN IsInt(last.y) \/ IsFloat(last.y) ELSE TRUE

\* The 0-based index of key k in a key sequence that holds it
IndexOf(s, k) == CHOOSE i \in 1..Len(s) : s[i] = k

\* C1: after any appends on a MultiSeries the key array is strictly increasing
\* with no duplicates and ysize is the number of distinct keys appended.
C1_KeysIncreasingRowsCounted ==
    (c.type = "MultiSeries" /\ IsAppend) =>
        /\ StrictlyIncreasing(Keys(c))
        /\ YSize(c) = Cardinality(appended)

\* C2: on a TimeFreqSpectrum row_epochs, keys and rows have the same length, and
\* every stored row and epoch are those of the most recent append at the row's
\* frequency: after each call, the row at the frequency just appended holds the
\* given values and epoch, and every other row was stored under the same
\* frequency with the same values and epoch before the call.
C2_Lockstep ==
    c.type = "TimeFreqSpectrum" =>
        /\ Len(RowEpochs(c)) = Len(Keys(c))
        /\ Len(Keys(c)) = YSize(c)
        /\ \A i \in 1..YSize(c) :
            IF IsAppend /\ Succeeded /\ Keys(c)[i] = last.freq
            THEN Rows(c)[i] = GivenRow.data /\ RowEpochs(c)[i] = GivenEpoch
            ELSE \E j \in 1..YSize(pre) :
                    /\ Keys(pre)[j] = Keys(c)[i]
                    /\ Rows(pre)[j] = Rows(c)[i]
                    /\ RowEpochs(pre)[j] = RowEpochs(c)[i]

\* C2's case: an append that inserted a row before stored rows of a spectrum.
C2_Witness ==
    /\ c.type = "TimeFreqSpectrum" /\ IsAppend /\ Succeeded
    /\ YSize(pre) = 2 /\ YSize(c) = 3
    /\ last.freq < Keys(pre)[2] /\ last.freq > Keys(pre)[1]
    /\ GivenEpoch # RowEpochs(pre)[2]

\* C3: a TimeFreqSpectrum that starts empty accumulates rows: the first append
\* makes it a one-row container and every later append is merged into the rows
\* stored (inserted in key order, or replacing the row of its key), the other
\* rows staying.  With 5-sample rows at rate 10: frequency 20 (epoch 0), then
\* frequency 10 (epoch 1) gives keys [10, 20] and row_epochs [1, 0]; then
\* frequency 20 (epoch 2) gives 2 rows, keys [10, 20], row_epochs [1, 2] and
\* the third row's values at key 20.
C3_AccumulatesFromEmpty ==
    (c.type = "TimeFreqSpectrum" /\ startedEmpty /\ IsAppend /\ Succeeded) =>
        /\ YSize(pre) = 0 => (YSize(c) = 1 /\ Keys(c) = <<last.freq>>)
        /\ YSize(pre) > 0 =>
            /\ StrictlyIncreasing(Keys(c))
            /\ KeysOf(c) = KeysOf(pre) \cup {last.freq}
            /\ YSize(c) = Cardinality(KeysOf(c))
            /\ \A j \in 1..YSize(pre) :
                Keys(pre)[j] # last.freq =>
                    \E i \in 1..YSize(c) :
                        /\ Keys(c)[i] = Keys(pre)[j]
                        /\ Rows(c)[i] = Rows(pre)[j]
                        /\ RowEpochs(c)[i] = RowEpochs(pre)[j]
        /\ ( /\ last.timeseries.type = "TimeSeries"
             /\ Size(GivenRow) = 5 /\ GivenSpacing = Recip(PyInt(10))
             /\ YSize(pre) > 0 /\ Len(Rows(pre)[1]) = 5 ) =>
            /\ (Keys(pre) = <<20>> /\ RowEpochs(pre) = <<0>>
                    /\ last.freq = 10 /\ GivenEpoch = 1) =>
                /\ Keys(c) = <<10, 20>>
                /\ RowEpochs(c) = <<1, 0>>
                /\ Rows(c) = <<GivenRow.data, Rows(pre)[1]>>
            /\ (Keys(pre) = <<10, 20>> /\ RowEpochs(pre) = <<1, 0>>
                    /\ last.freq = 20 /\ GivenEpoch = 2) =>
                /\ YSize(c) = 2
                /\ Keys(c) = <<10, 20>>
                /\ RowEpochs(c) = <<1, 2>>
                /\ Rows(c) = <<Rows(pre)[1], GivenRow.data>>

\* C4: an append at a key already present replaces the row stored at that key
\* and leaves row_count, the key array and every other row unchanged.
C4_UpdateOnCollision ==
    (IsAppend /\ Succeeded /\ GivenKey \in KeysOf(pre)) =>
        /\ YSize(c) = YSize(pre)
        /\ Keys(c) = Keys(pre)
        /\ \A i \in 1..YSize(c) :
            Rows(c)[i] = IF Keys(c)[i] = GivenKey THEN GivenRow.data
                         ELSE Rows(pre)[i]

\* C4's case: a MultiSeries of three rows whose middle row an append replaced.
C4_Witness ==
    /\ c.type = "MultiSeries" /\ IsAppend /\ Succeeded
    /\ YSize(pre) = 3 /\ GivenKey = Keys(pre)[2]
    /\ Rows(c)[2] # Rows(pre)[2]

\* C5: an append to a container holding rows of a row whose length differs from
\* column_count, or whose spacing differs from the shared spacing, fails, and
\* rows, keys and spacing are afterwards what they were.
C5_MismatchedRowRejected ==
    (/\ IsAppend /\ HoldsRows(pre) /\ GaveRow
     /\ (Size(GivenRow) # XSize(pre) \/ GivenSpacing # pre.deltax)) =>
        /\ ~Succeeded
        /\ Rows(c) = Rows(pre)
        /\ Keys(c) = Keys(pre)
        /\ c.deltax = pre.deltax

\* C6: an append that ends in an error leaves rows, keys, spacing and
\* row_epochs as they were before the call.
C6_FailedAppendChangesNothing ==
    (IsAppend /\ ~Succeeded) =>
        /\ Rows(c) = Rows(pre)
        /\ Keys(c) = Keys(pre)
        /\ c.deltax = pre.deltax
        /\ RowEpochs(c) = RowEpochs(pre)

\* C7: an append of a row with a real scalar key to an empty MultiSeries succeeds
\* and leaves one row, the key, the row's values and the row's spacing; a
\* TypeError is raised only for a key that is not a real scalar.
C7_FirstAppend ==
    (c.type = "MultiSeries" /\ IsAppend /\ startedEmpty /\ ~HoldsRows(pre)) =>
        /\ GaveScalarKey =>
            /\ Succeeded
            /\ YSize(c) = 1
            /\ Keys(c) = <<GivenKey>>
            /\ Rows(c) = <<GivenRow.data>>
            /\ c.deltax = GivenSpacing
        /\ last.outcome = "TypeError" => ~GaveScalarKey

\* C8: iterating a TimeFreqSpectrum that holds at least one row ends without
\* error and yields row_count pairs in strictly ascending frequency, the i-th
\* with the values of row i, the epoch row_epochs[i] and the rate 1/spacing.
C8_IterationYieldsRows ==
    (last.op = "iter" /\ YSize(c) >= 1) =>
        /\ last.outcome = "ok"
        /\ Len(last.items) = YSize(c)
        /\ \A i \in 1..YSize(c) :
            /\ last.items[i].frequency = Keys(c)[i]
            /\ last.items[i].series.value.data = Rows(c)[i]
            /\ last.items[i].series.epoch = PyInt(RowEpochs(c)[i])
            /\ last.items[i].series.deltax = Recip(Recip(c.deltax))
        /\ \A i \in 1..(YSize(c) - 1) :
            last.items[i].frequency < last.items[i + 1].frequency

\* C9: TimeSeries.resample(new_rate) with new_rate different from the current
\* rate returns a new TimeSeries at rate new_rate, holding the collaborator's
\* output for (values, current rate, new_rate), with the original epoch.
C9_ResampleToNewRate ==
    (res.op = "resample" /\ ser.type = "TimeSeries" /\ res.arg # TimeSeriesFs(ser)) =>
        /\ res.r.outcome = "ok"
        /\ ~res.r.same
        /\ res.r.obj.type = "TimeSeries"
        /\ TimeSeriesFs(res.r.obj) = res.arg
        /\ res.r.obj.value = Resample(ser.value, TimeSeriesFs(ser), res.arg)
        /\ res.r.obj.epoch = ser.epoch

\* The spacing of a Series, the rate (fs) of a TimeSeries
OwnRate(self) == IF self.type = "TimeSeries" THEN TimeSeriesFs(self) ELSE self.deltax

-----------------------------------------------------------------------------
(* Claims about indexing and constructing a sequence. *)

IsGetItem == res.op = "getitem"
GaveSlice == IsGetItem /\ res.key.type = "slice"
GaveIndexArray == IsGetItem /\ res.key.type = "ndarray"
Returned == res.r.outcome = "ok"

\* C11: a slice whose start is negative always fails with an error (ValueError),
\* whatever the buffer, the start, the stop and the step, and the sequence's
\* values and spacing are what they were.
C11_NegativeStartFails ==
    (GaveSlice /\ ~IsNone(res.key.start) /\ res.key.start.v < 0) =>
        /\ res.r.outcome = "ValueError"
        /\ res.self.value = ser.value
        /\ res.self.deltax = ser.deltax

\* C11's case: a slice from -1 with a stop and a step that would select elements.
C11_Witness ==
    /\ GaveSlice
    /\ res.key = Slice(PyInt(-1), PyInt(7), PyInt(1))
    /\ res.r.outcome = "ValueError"

\* a = b as rationals
SameNumber(a, b) == a.num * b.den = b.num * a.den

\* The step a slice asks for
StepOf(key) == IF IsNone(key.step) THEN 1 ELSE key.step.v

\* The 0-based positions of a buffer of n elements that a slice with a start
\* that is not negative and a step that is not zero speaks of: from its first
\* position on, every |step|-th position short of its limit
FirstOf(n, key) ==
    IF StepOf(key) > 0
    THEN IF IsNone(key.start) THEN 0 ELSE key.start.v
    ELSE IF IsNone(key.start) THEN n - 1 ELSE Min(key.start.v, n - 1)
LimitOf(n, key) ==
    IF IsNone(key.stop) THEN (IF StepOf(key) > 0 THEN n ELSE -1)
    ELSE IF key.stop.v < 0
    THEN Max(key.stop.v + n, IF StepOf(key) > 0 THEN 0 ELSE -1)
    ELSE key.stop.v
Selected(n, key) ==
    {i \in 0..(n - 1) :
        IF StepOf(key) > 0
        THEN /\ FirstOf(n, key) <= i /\ i < LimitOf(n, key)
             /\ (i - FirstOf(n, key)) % StepOf(key) = 0
        ELSE /\ LimitOf(n, key) < i /\ i <= FirstOf(n, key)
             /\ (FirstOf(n, key) - i) % (-StepOf(key)) = 0}

\* C12: length is spacing * len(values); a slice with step s (start not
\* negative, s not zero) returns a new sequence that holds every s-th selected
\* element, with spacing spacing * s, the spacing itself when no step is given;
\* [1, 2, 3, 4] at spacing 0.5 sliced [::2] gives [1, 3] at spacing 1.0; the
\* sequence sliced keeps its values and spacing.
C12_LengthAndSliceSpacing ==
    /\ res.op = "length" =>
        res.r.num * ser.deltax.den = ser.deltax.num * Len(ser.value.data) * res.r.den
    /\ ( /\ GaveSlice
         /\ IsNone(res.key.start) \/ res.key.start.v >= 0
         /\ StepOf(res.key) # 0 ) =>
        LET n == Len(ser.value.data)
            s == StepOf(res.key)
            sel == Selected(n, res.key)
            got == res.r.ret
        IN
        /\ Returned
        /\ got.type = "Series"
        /\ got.deltax.num * ser.deltax.den = ser.deltax.num * s * got.deltax.den
        /\ IsNone(res.key.step) => got.deltax = ser.deltax
        /\ Len(got.value.data) = Cardinality(sel)
        /\ \A j \in 1..Len(got.value.data) :
            LET i == FirstOf(n, res.key) + (j - 1) * s IN
            i \in sel /\ got.value.data[j] = ser.value.data[i + 1]
        /\ res.self.value = ser.value
        /\ res.self.deltax = ser.deltax
        /\ ( /\ ser.value.data = <<1, 2, 3, 4>> /\ ser.deltax = Float(1, 2)
             /\ res.key = Slice(PyNone, PyNone, PyInt(2)) ) =>
            got.value.data = <<1, 3>> /\ got.deltax = Float(1, 1)

\* C12's case: [1, 2, 3, 4] at spacing 0.5 sliced [::2].
C12_Witness ==
    /\ GaveSlice /\ Returned
    /\ ser.value.data = <<1, 2, 3, 4>> /\ ser.deltax = Float(1, 2)
    /\ res.key = Slice(PyNone, PyNone, PyInt(2))
    /\ res.r.ret.value.data = <<1, 3>>

\* All consecutive differences of a sequence of numbers are equal
ArithmeticProgression(s) ==
    \A i \in 1..(Len(s) - 2) : s[i + 1] - s[i] = s[i + 2] - s[i + 1]

\* C13: an index array of two or more positions of the buffer is accepted
\* exactly when its consecutive differences are all equal, and the result then
\* is a sequence of the elements at those positions with spacing
\* spacing * (index[1] - index[0]); an array with two unequal consecutive
\* differences fails with an error (ValueError); an array of one position
\* returns the raw selected value, not a sequence.
C13_IndexArrayUniform ==
    GaveIndexArray =>
        LET idx == res.key.data
            n == Len(ser.value.data)
            got == res.r.ret
        IN
        /\ (Len(idx) >= 2 /\ ~ArithmeticProgression(idx)) =>
            res.r.outcome = "ValueError"
        /\ (Len(idx) >= 2 /\ InRange(n, idx)) =>
            /\ Returned <=> ArithmeticProgression(idx)
            /\ Returned =>
                /\ got.type = "Series"
                /\ got.deltax.num * ser.deltax.den
                        = ser.deltax.num * (idx[2] - idx[1]) * got.deltax.den
                /\ Len(got.value.data) = Len(idx)
                /\ \A j \in 1..Len(idx) :
                    got.value.data[j] = ser.value.data[((idx[j] + n) % n) + 1]
        /\ (Len(idx) = 1 /\ InRange(n, idx)) =>
            /\ Returned
            /\ got.type = "ndarray"
            /\ got.data = <<ser.value.data[((idx[1] + n) % n) + 1]>>

\* C13's case: positions 0, 2, 4 of a five-element sequence.
C13_Witness ==
    /\ GaveIndexArray /\ Returned
    /\ res.key.data = <<0, 2, 4>>
    /\ res.r.ret.type = "Series"
    /\ Len(res.r.ret.value.data) = 3

\* C16: constructing a Series from a buffer that is not one-dimensional
\* (zero-dimensional, or of two dimensions of any shape, (1, n) included) fails
\* with the shape error, so the values of every Series constructed are
\* one-dimensional.
C16_NonOneDimensionalRejected ==
    res.op = "Series" =>
        /\ res.value.ndim # 1 => res.r.outcome = "Exception"
        /\ res.r.outcome = "ok" => res.r.obj.value.ndim = 1

\* C19: every sequence that indexing a sequence of spacing > 0 returns, by a
\* slice with any step accepted or by any index array accepted, has a
\* spacing > 0.
C19_SlicedSpacingPositive ==
    ( /\ IsGetItem /\ Returned /\ Positive(ser.deltax)
      /\ res.r.ret.type = "Series" ) =>
        Positive(res.r.ret.deltax)

-----------------------------------------------------------------------------
(* Claims about the containers' accessors and construction. *)

\* The accessors that depend on the shape the first row sets
ShapeDependent == {"xsize", "__len__", "length", "deltax", "x", "height", "epoch"}

\* The container was constructed without rows and no append has succeeded
ReceivedNoRows == startedEmpty /\ appended = {}

\* C14: on a container that has received no rows yet (an empty MultiSeries, the
\* result of CreateEmptySpectrum) each of xsize, __len__, length, deltax, x,
\* height and epoch raises an error instead of returning a value.
C14_EmptyContainerRejectsAccess ==
    (last.op = "access" /\ ReceivedNoRows /\ last.name \in ShapeDependent) =>
        last.r.outcome # "ok"

\* The rows of a buffer given to a constructor: one for a one-dimensional
\* buffer, the first dimension of a two-dimensional one
RowsGiven(array) == IF array.ndim = 1 THEN 1 ELSE Len(array.data)

\* C15: TimeFreqSpectrum constructed with R >= 1 rows (a one-dimensional buffer
\* for R = 1, a two-dimensional one of R rows) and R keys: with a scalar epoch
\* the construction succeeds and row_epochs holds R entries, each that epoch;
\* with an epoch array it succeeds exactly when the array holds R entries.
C15_EpochBroadcastOrMatched ==
    ( /\ res.op = "TimeFreqSpectrum"
      /\ Len(AsList(res.freqs)) = RowsGiven(res.array) ) =>
        LET R == RowsGiven(res.array) IN
        /\ IsInt(res.epoch) =>
            /\ res.r.outcome = "ok"
            /\ RowEpochs(res.r.obj) = [i \in 1..R |-> res.epoch.v]
        /\ res.epoch.type = "list" =>
            (res.r.outcome = "ok" <=> Len(res.epoch.v) = R)

-----------------------------------------------------------------------------
(* Claims about the ordered append. *)

\* The map from the keys a container stores to the rows stored with them
RowMap(self) ==
    [k \in KeysOf(self) |-> Rows(self)[IndexOf(Keys(self), k)]]

\* The first 1-based index of a key sequence whose key is >= k
FirstIndexAtLeast(s, k) ==
    CHOOSE i \in 1..Len(s) : s[i] >= k /\ \A j \in 1..(i - 1) : s[j] < k

C18_ShapeAndSpacingFixed ==
    (IsAppend /\ HoldsRows(pre)) =>
        /\ XSize(c) = XSize(pre)
        /\ \A i \in 1..YSize(c) : Len(Rows(c)[i]) = XSize(pre)
        /\ c.deltax = pre.deltax
        /\ ( /\ GaveRow
             /\ (Size(GivenRow) # XSize(pre) \/ GivenSpacing # pre.deltax) ) =>
            ~Succeeded

\* C20: a container writes only to buffers of its own: no append changes the
\* values of a buffer the caller supplied earlier, to the constructor or to
\* an append.  The buffer the container's array is a view of holds what it
\* held when the caller supplied it.
C20_CallerBuffersUntouched ==
    (IsAppend /\ c.base.shared) => c.base.now = c.base.orig

====
